---------------------------- MODULE Spec2Model ----------------------------
(***************************************************************************)
(* Model of the snapshot-ingestion lambda: src/src/lambda_function.py      *)
(* (lambda_handler) driving src/src/db_service.py (DBService) against a    *)
(* MySQL store.  One handler invocation runs at a time; invocations follow *)
(* one another and share the store.                                        *)
(*                                                                         *)
(* Python values are modelled as follows.  None is the empty sequence and  *)
(* a present optional value v is <<v>> (so an optional integer or string   *)
(* keeps one type).  A date is a day number.  A TopItem is a record with   *)
(* the four dataclass fields.  pandas' NaN is None: the code itself maps   *)
(* NaN to None before it builds the result (db_service.py:138).            *)
(***************************************************************************)
EXTENDS Integers, Sequences, FiniteSets, TLC

VARIABLES
    now,                \* the day the wall clock shows
    spotify_user,       \* table spotify_user: id -> refresh_token
    tables,             \* committed rows of top_artist/top_track/top_genre/top_emotion
    invocations,        \* number of handler invocations started so far
    pc,                 \* position of the running invocation
    event,              \* the inbound event of the running invocation
    user_spotify_data,  \* lambda_handler's local: the decoded request, or None
    connection,         \* "none" | "open" | "closed"
    close_calls,        \* number of connection.close() calls of this invocation
    pending,            \* writes of the connection's open transaction
    collected_date,     \* lambda_handler's local (None before line 107)
    i,                  \* index of the entry the running for-loop is at
    item_type,          \* _store_top_items_with_position_changes: argument
    top_items,          \* _store_top_items_with_position_changes: argument
    top_items_prev,     \* ... local top_items_prev
    top_items_to_store, \* ... local top_items_to_store
    exc,                \* the exception in flight, "none" when there is none
    outcome,            \* "running" | "returned" | "raised"
    calls               \* the DBService operations of this invocation, in order

vars == <<now, spotify_user, tables, invocations, pc, event, user_spotify_data,
          connection, close_calls, pending, collected_date, i, item_type, top_items,
          top_items_prev, top_items_to_store, exc, outcome, calls>>

---------------------------------------------------------------------------
(* Bounds of the model *)

MaxInvocations == 2
MaxDay == 2
MaxLen == 3

---------------------------------------------------------------------------
(* Values *)

None == << >>
Some(v) == <<v>>

Range(s) == {s[k] : k \in 1..Len(s)}

RECURSIVE SeqsUpTo(_, _)
SeqsUpTo(S, n) ==
    IF n = 0 THEN {<< >>}
    ELSE LET shorter == SeqsUpTo(S, n - 1)
         IN shorter \cup {Append(s, x) : s \in {t \in shorter : Len(t) = n - 1}, x \in S}

(* models.TimeRange *)
TimeRange == {"short_term", "medium_term", "long_term"}

(* db_service.ItemType *)
ItemType == {"artist", "track"}

(* TopItem(id=..., position=...): the two optional fields take the
   dataclass defaults, position_change=None and is_new=False, which are the
   values _store_top_items writes for such items. *)
TopItem(id, position) ==
    [id |-> id, position |-> position, position_change |-> None, is_new |-> FALSE]

Ids == {"a", "b", "c"}

(* A ranked list as the upstream sends it: the k-th item has position k. *)
Ranked(ids) == [k \in 1..Len(ids) |-> TopItem(ids[k], k)]

(* The same ids with the positions running backwards, so that the list is
   not in ascending order of position. *)
RankedBackwards(ids) == [k \in 1..Len(ids) |-> TopItem(ids[k], Len(ids) + 1 - k)]

UniqueIds(items) ==
    \A j, k \in 1..Len(items) : items[j].id = items[k].id => j = k

---------------------------------------------------------------------------
(* DBService._calculate_position_changes *)

(* The rows of the merge with the subtraction the wrong way round. *)
MergedRowsReversed(item, items_prev) ==
    LET matches == SelectSeq(items_prev, LAMBDA p : p.id = item.id)
    IN IF matches = << >>
       THEN << [id |-> item.id, position |-> item.position,
                position_change |-> None, is_new |-> TRUE] >>
       ELSE [k \in 1..Len(matches) |->
                [id |-> item.id, position |-> item.position,
                 position_change |-> Some(item.position - matches[k].position),
                 is_new |-> FALSE]]

(* The rows pd.merge(how="left", on=["id"]) produces for one row of latest_df:
   one per row of prev_df with the same id, in prev_df's order, or a single
   row with position_prev = NaN when there is none; then position_change =
   position_prev - position and is_new = isna(position_change). *)
MergedRows(item, items_prev) ==
    LET matches == SelectSeq(items_prev, LAMBDA p : p.id = item.id)
    IN IF matches = << >>
       THEN << [id |-> item.id, position |-> item.position,
                position_change |-> None, is_new |-> TRUE] >>
       ELSE [k \in 1..Len(matches) |->
                [id |-> item.id, position |-> item.position,
                 position_change |-> Some(matches[k].position - item.position),
                 is_new |-> FALSE]]

RECURSIVE LeftMerge(_, _)
LeftMerge(items_current, items_prev) ==
    IF items_current = << >> THEN << >>
    ELSE MergedRows(Head(items_current), items_prev)
             \o LeftMerge(Tail(items_current), items_prev)

(* pd.DataFrame([]) has no columns: prev_df[["id", "position"]] (line 131) and
   the merge on "id" (line 129) raise KeyError when a list is empty. *)
CalculateRaises(items_current, items_prev) ==
    items_current = << >> \/ items_prev = << >>

(* The merge as an inner join: current items with no previous row are dropped. *)
InnerMerge(items_current, items_prev) ==
    SelectSeq(LeftMerge(items_current, items_prev), LAMBDA r : ~r.is_new)

(* lines 125-140: the records of the merged frame, as TopItems *)
_calculate_position_changes(items_current, items_prev) ==
    LeftMerge(items_current, items_prev)


---------------------------------------------------------------------------
(* The store: tables, transactions, queries *)

Users == {"u1", "u2"}

(* Values a refresh token takes.  A token is an arbitrary string; "u2" is a
   token that happens to spell a user id. *)
RefreshTokens == {"tokA", "u2"}

InitialToken == "tok0"

TableOf(type) == IF type = "artist" THEN "top_artist" ELSE "top_track"

EmptyTables ==
    [top_artist |-> << >>, top_track |-> << >>, top_genre |-> << >>, top_emotion |-> << >>]

(* A write of the open transaction: a row to insert, or (table spotify_user)
   the parameters of the UPDATE. *)
Write(table, row) == [table |-> table, row |-> row]

(* "UPDATE spotify_user SET refresh_token = %s WHERE id = %s;" run with the
   parameter tuple (first, second): the first parameter fills the SET clause
   and the second the WHERE clause. *)
UpdateStatement(first, second) ==
    Write("spotify_user", [refresh_token |-> first, id |-> second])

(* Rows stored for the same key and item as `row`. *)
SameKeyAndItem(r, row) ==
    /\ r.spotify_user_id = row.spotify_user_id
    /\ r.time_range = row.time_range
    /\ r.collected_date = row.collected_date
    /\ IF "item_id" \in DOMAIN row THEN r.item_id = row.item_id ELSE r.name = row.name

(* The insert as a REPLACE: rows of the same key and item are deleted first. *)
ApplyWriteReplaces(db, w) ==
    IF w.table = "spotify_user"
    THEN [db EXCEPT !.spotify_user =
             [id \in DOMAIN db.spotify_user |->
                 IF id = w.row.id THEN w.row.refresh_token ELSE db.spotify_user[id]]]
    ELSE [db EXCEPT !.tables[w.table] =
             Append(SelectSeq(@, LAMBDA r : ~SameKeyAndItem(r, w.row)), w.row)]

(* One statement of a committed transaction applied to the database: the
   UPDATE of spotify_user, or the INSERT of a row. *)
ApplyWrite(db, w) ==
    IF w.table = "spotify_user"
    THEN [db EXCEPT !.spotify_user =
             [id \in DOMAIN db.spotify_user |->
                 IF id = w.row.id THEN w.row.refresh_token ELSE db.spotify_user[id]]]
    ELSE [db EXCEPT !.tables[w.table] = Append(@, w.row)]

RECURSIVE ApplyWrites(_, _)
ApplyWrites(db, writes) ==
    IF writes = << >> THEN db
    ELSE ApplyWrites(ApplyWrite(db, Head(writes)), Tail(writes))

(* connection.commit(): every write of the open transaction becomes durable. *)
Committed(writes) ==
    ApplyWrites([spotify_user |-> spotify_user, tables |-> tables], writes)

RemoveAt(s, k) == SubSeq(s, 1, k - 1) \o SubSeq(s, k + 1, Len(s))

(* "ORDER BY position ASC": every order of the rows that is ascending in
   position; the order of rows with equal positions is the store's choice. *)
RECURSIVE OrderedByPosition(_)
OrderedByPosition(rows) ==
    IF rows = << >> THEN {<< >>}
    ELSE LET least == {k \in 1..Len(rows) :
                          \A j \in 1..Len(rows) : rows[k].position <= rows[j].position}
         IN UNION {{<<rows[k]>> \o rest : rest \in OrderedByPosition(RemoveAt(rows, k))}
                   : k \in least}

(* The WHERE clause without its time_range condition. *)
MatchingRowsOfAnyTimeRange(user_id, type, time_range, date) ==
    SelectSeq(tables[TableOf(type)],
              LAMBDA r : r.spotify_user_id = user_id /\ r.collected_date = date)

(* WHERE spotify_user_id = %s AND time_range = %s AND collected_date = %s on
   the table of the item type, in the order of the table. *)
MatchingRows(user_id, type, time_range, date) ==
    SelectSeq(tables[TableOf(type)],
              LAMBDA r : /\ r.spotify_user_id = user_id
                         /\ r.time_range = time_range
                         /\ r.collected_date = date)

(* The SELECT of _get_top_items and the TopItem list built from each result. *)
SelectTopItems(user_id, type, time_range, date) ==
    {[k \in 1..Len(results) |-> TopItem(results[k].item_id, results[k].position)]
        : results \in OrderedByPosition(MatchingRows(user_id, type, time_range, date))}

(* The tuples _store_top_items passes to executemany. *)
InsertValues(user_id, items, type, time_range, date) ==
    [k \in 1..Len(items) |->
        Write(TableOf(type),
              [spotify_user_id |-> user_id,
               item_id |-> items[k].id,
               collected_date |-> date,
               position |-> items[k].position,
               position_change |-> items[k].position_change,
               is_new |-> items[k].is_new,
               time_range |-> time_range])]

(* The rows that a list of INSERT tuples becomes. *)
RowsOfValues(values) == [k \in 1..Len(values) |-> values[k].row]

(* ComparisonIntervalDays: days between a snapshot and the one it is compared
   with, per time range. *)
ComparisonIntervalDays == [short_term |-> 1, medium_term |-> 2, long_term |-> 2]

(* Rows of the genre and emotion tables. *)
MeasureValues(table, user_id, items, time_range, date) ==
    [k \in 1..Len(items) |->
        Write(table, [spotify_user_id |-> user_id, name |-> items[k].name,
                      collected_date |-> date, measure |-> items[k].measure,
                      time_range |-> time_range])]

---------------------------------------------------------------------------
(* Inbound requests *)

ArtistsData(time_range, items) == [top_artists |-> items, time_range |-> time_range]
TracksData(time_range, items) == [top_tracks |-> items, time_range |-> time_range]
GenresData(time_range) ==
    [top_genres |-> <<[name |-> "genre1", measure |-> 3], [name |-> "genre2", measure |-> 1]>>,
     time_range |-> time_range]
EmotionsData(time_range) ==
    [top_emotions |-> <<[name |-> "emotion1", measure |-> 30]>>, time_range |-> time_range]

NoData ==
    [top_artists_data |-> << >>, top_tracks_data |-> << >>,
     top_genres_data |-> << >>, top_emotions_data |-> << >>]

(* One artist list for the short window. *)
OneList(items) == [NoData EXCEPT !.top_artists_data = <<ArtistsData("short_term", items)>>]

(* Two artist windows, medium before short, and one list of every other
   category. *)
AllCategories(items) ==
    [top_artists_data |-> <<ArtistsData("medium_term", items), ArtistsData("short_term", items)>>,
     top_tracks_data |-> <<TracksData("short_term", items)>>,
     top_genres_data |-> <<GenresData("short_term")>>,
     top_emotions_data |-> <<EmotionsData("short_term")>>]

Request(user_id, refresh_token, d) ==
    [user_id |-> user_id, refresh_token |-> refresh_token,
     top_artists_data |-> d.top_artists_data, top_tracks_data |-> d.top_tracks_data,
     top_genres_data |-> d.top_genres_data, top_emotions_data |-> d.top_emotions_data]

(* The requests of the model: u1 without a token and every shape of data, u1
   with each token, and u2. *)
UserSpotifyData ==
    {Request("u1", None, d) :
        d \in {NoData, OneList(<< >>), OneList(Ranked(<<"a", "b">>)),
               OneList(Ranked(<<"b", "c">>)), AllCategories(Ranked(<<"a", "b">>))}}
    \cup {Request("u1", Some(t), OneList(Ranked(<<"a", "b">>))) : t \in RefreshTokens}
    \cup {Request("u1", Some("tokA"), AllCategories(Ranked(<<"a", "b">>)))}
    \cup {Request("u2", None, OneList(Ranked(<<"a", "b">>)))}

(* An event: a message that decodes to a request, or one that does not. *)
Events ==
    {[well_formed |-> TRUE, body |-> r] : r \in UserSpotifyData}
    \cup {[well_formed |-> FALSE, body |-> None]}


---------------------------------------------------------------------------
(* Time.  The clock shows a day; a datetime read from it carries the day and
   a time of day, which strftime("%Y-%m-%d") drops. *)

TimesOfDay == {"00:05", "23:55"}

(* datetime.strftime("%Y-%m-%d"): the calendar day of a datetime *)
strftime(datetime) == datetime.day

(* datetime - timedelta(days=days) *)
MinusDays(datetime, days) == [datetime EXCEPT !.day = @ - days]

---------------------------------------------------------------------------
(* lambda_handler *)

Data == user_spotify_data[1]

Call(op, args) == [op |-> op, args |-> args]

handler_locals == <<user_spotify_data, collected_date, i>>
service_locals == <<item_type, top_items, top_items_prev, top_items_to_store>>
store == <<spotify_user, tables>>
conn == <<connection, close_calls, pending>>
env == <<now, invocations, event>>

(* An exception raised from inside the try block of lambda_handler. *)
RaiseInTry(e) ==
    /\ exc' = e
    /\ pc' = "except"
    /\ UNCHANGED outcome

(* An exception raised before the try block: it leaves lambda_handler. *)
RaiseBeforeTry(e) ==
    /\ exc' = e
    /\ pc' = "done"
    /\ outcome' = "raised"

(* The queue trigger invokes the handler with an event. *)
Invoke(e) ==
    /\ pc \in {"idle", "done"}
    /\ invocations < MaxInvocations
    /\ invocations' = invocations + 1
    /\ event' = e
    /\ pc' = "get_settings"
    /\ user_spotify_data' = None
    /\ connection' = "none"
    /\ close_calls' = 0
    /\ pending' = << >>
    /\ collected_date' = None
    /\ i' = 0
    /\ item_type' = "artist"
    /\ top_items' = << >>
    /\ top_items_prev' = << >>
    /\ top_items_to_store' = << >>
    /\ exc' = "none"
    /\ outcome' = "running"
    /\ calls' = << >>
    /\ UNCHANGED <<now, store>>

(* The clock advances to the next day: between invocations, or during one,
   when the handler is between its artist lists and its track lists. *)
Tick ==
    /\ pc \in {"idle", "done", "tracks"}
    /\ now < MaxDay
    /\ now' = now + 1
    /\ UNCHANGED <<store, invocations, pc, event, handler_locals, conn,
                   service_locals, exc, outcome, calls>>

(* line 82: settings = get_settings() *)
GetSettings ==
    /\ pc = "get_settings"
    /\ \/ /\ pc' = "extract"
          /\ UNCHANGED <<exc, outcome>>
       \/ RaiseBeforeTry("KeyError")
    /\ UNCHANGED <<env, store, handler_locals, conn, service_locals, calls>>

(* line 85: user_spotify_data = extract_user_spotify_data_from_event(event) *)
Extract ==
    /\ pc = "extract"
    /\ \/ /\ event.well_formed
          /\ user_spotify_data' = Some(event.body)
          /\ pc' = "connect"
          /\ UNCHANGED <<exc, outcome>>
       \/ /\ ~event.well_formed
          /\ RaiseBeforeTry("KeyError")
          /\ UNCHANGED user_spotify_data
    /\ UNCHANGED <<env, store, collected_date, i, conn, service_locals, calls>>

(* lines 88-93: connection = mysql.connector.connect(...) *)
Connect ==
    /\ pc = "connect"
    /\ \/ /\ connection' = "open"
          /\ pc' = "create_service"
          /\ UNCHANGED <<exc, outcome>>
       \/ /\ RaiseBeforeTry("mysql.connector.Error")
          /\ UNCHANGED connection
    /\ UNCHANGED <<env, store, handler_locals, close_calls, pending, service_locals, calls>>

(* line 97: db_service = DBService(connection).  The call gives one argument
   and DBService.__init__ (db_service.py:24-28) takes two, so it raises
   TypeError; with the one-argument constructor that the tests build the
   service with (test_db_service.py:40) it returns.  Both are outcomes. *)
CreateService ==
    /\ pc = "create_service"
    /\ \/ /\ pc' = "credential"
          /\ UNCHANGED <<exc, outcome>>
       \/ RaiseInTry("TypeError")
    /\ UNCHANGED <<env, store, handler_locals, conn, service_locals, calls>>

(* The credential step left out. *)
CredentialStepSkipped ==
    /\ pc = "credential"
    /\ pc' = "collect_date"
    /\ UNCHANGED <<env, store, handler_locals, conn, service_locals, exc, outcome, calls>>

(* lines 100-104: the credential step, up to the call of update_refresh_token *)
CredentialStep ==
    /\ pc = "credential"
    /\ IF Data.refresh_token # None
       THEN /\ calls' = Append(calls, Call("update_refresh_token",
                                  [user_id |-> Data.user_id,
                                   refresh_token |-> Data.refresh_token[1]]))
            /\ pc' = "update_refresh_token"
       ELSE /\ pc' = "collect_date"
            /\ UNCHANGED calls
    /\ UNCHANGED <<env, store, handler_locals, conn, service_locals, exc, outcome>>

(* DBService.update_refresh_token, lines 33-41: cursor() and execute() *)
UpdateRefreshTokenExecute ==
    /\ pc = "update_refresh_token"
    /\ \/ /\ RaiseInTry("mysql.connector.Error")      \* line 33, outside the try
          /\ UNCHANGED pending
       \/ /\ pending' = Append(pending, UpdateStatement(Data.user_id, Data.refresh_token[1]))
          /\ pc' = "update_refresh_token_commit"
          /\ UNCHANGED <<exc, outcome>>
       \/ /\ pc' = "rollback"                         \* execute raises
          /\ UNCHANGED <<pending, exc, outcome>>
    /\ UNCHANGED <<env, store, handler_locals, connection, close_calls, service_locals, calls>>

(* DBService.update_refresh_token, line 42: commit() *)
UpdateRefreshTokenCommit ==
    /\ pc = "update_refresh_token_commit"
    /\ \/ /\ spotify_user' = Committed(pending).spotify_user
          /\ tables' = Committed(pending).tables
          /\ pending' = << >>
          /\ calls' = Append(calls, Call("commit", [writes |-> pending]))
          /\ pc' = "collect_date"
       \/ /\ pc' = "rollback"
          /\ UNCHANGED <<store, pending, calls>>
    /\ UNCHANGED <<env, handler_locals, connection, close_calls, service_locals, exc, outcome>>

(* The rows this invocation has committed so far, per the log. *)
CommittedRowsOfInvocation ==
    UNION {{w.row : w \in {x \in Range(calls[j].args.writes) : x.table # "spotify_user"}}
           : j \in {k \in 1..Len(calls) : calls[k].op = "commit"}}

(* The rollback of a handler that keeps one transaction for the whole
   invocation: the rows of the triples stored before the failure go too. *)
RollbackUndoesInvocation ==
    /\ pc = "rollback"
    /\ pending' = << >>
    /\ calls' = Append(calls, Call("rollback", [writes |-> pending]))
    /\ tables' = [T \in DOMAIN tables |->
                     SelectSeq(tables[T], LAMBDA r : r \notin CommittedRowsOfInvocation)]
    /\ exc' = "DBServiceException"
    /\ pc' = "except"
    /\ UNCHANGED <<env, spotify_user, handler_locals, connection, close_calls,
                   service_locals, outcome>>

(* Rollback without the raise of lines 47 and 121: the failure is logged and
   the caller carries on. *)
RollbackSwallows ==
    /\ pc = "rollback"
    /\ pending' = << >>
    /\ calls' = Append(calls, Call("rollback", [writes |-> pending]))
    /\ pc' = IF collected_date = None THEN "collect_date" ELSE "finally"
    /\ UNCHANGED <<env, store, handler_locals, connection, close_calls, service_locals,
                   exc, outcome>>

(* lines 43-47 and 117-121: except mysql.connector.Error: rollback, raise
   DBServiceException *)
Rollback ==
    /\ pc = "rollback"
    /\ pending' = << >>
    /\ calls' = Append(calls, Call("rollback", [writes |-> pending]))
    /\ RaiseInTry("DBServiceException")
    /\ UNCHANGED <<env, store, handler_locals, connection, close_calls, service_locals>>

(* line 107: collected_date = datetime.now(timezone.utc) *)
CollectDate ==
    /\ pc = "collect_date"
    /\ \E time \in TimesOfDay : collected_date' = Some([day |-> now, time |-> time])
    /\ i' = 1
    /\ pc' = "artists"
    /\ UNCHANGED <<env, store, user_spotify_data, conn, service_locals, exc, outcome, calls>>


(* The entry of a loop that runs over its list from the end. *)
EntryFromTheEnd ==
    IF item_type = "artist"
    THEN Data.top_artists_data[Len(Data.top_artists_data) + 1 - i]
    ELSE Data.top_tracks_data[Len(Data.top_tracks_data) + 1 - i]

(* The entry the running loop is at, and its time range *)
Entry ==
    IF item_type = "artist" THEN Data.top_artists_data[i] ELSE Data.top_tracks_data[i]

(* lines 110-116: for entry in top_artists_data: db_service.store_top_artists(...),
   which (lines 172-185) calls _store_top_items_with_position_changes *)
ArtistsLoop ==
    /\ pc = "artists"
    /\ \/ /\ i <= Len(Data.top_artists_data)
          /\ item_type' = "artist"
          /\ top_items' = Data.top_artists_data[i].top_artists
          /\ top_items_prev' = << >>
          /\ top_items_to_store' = << >>
          /\ pc' = "get_top_items"
          /\ UNCHANGED i
       \/ /\ i > Len(Data.top_artists_data)
          /\ i' = 1
          /\ pc' = "tracks"
          /\ UNCHANGED service_locals
    /\ UNCHANGED <<env, store, user_spotify_data, collected_date, conn, exc, outcome, calls>>

(* The tracks loop left out. *)
TracksLoopSkipped ==
    /\ pc = "tracks"
    /\ i' = 1
    /\ pc' = "genres"
    /\ UNCHANGED <<env, store, user_spotify_data, collected_date, conn, service_locals,
                   exc, outcome, calls>>

(* The tracks loop reading the clock itself instead of using the date of
   line 107. *)
TracksLoopReadsClock ==
    /\ pc = "tracks"
    /\ \/ /\ i <= Len(Data.top_tracks_data)
          /\ \E time \in TimesOfDay : collected_date' = Some([day |-> now, time |-> time])
          /\ item_type' = "track"
          /\ top_items' = Data.top_tracks_data[i].top_tracks
          /\ top_items_prev' = << >>
          /\ top_items_to_store' = << >>
          /\ pc' = "get_top_items"
          /\ UNCHANGED i
       \/ /\ i > Len(Data.top_tracks_data)
          /\ i' = 1
          /\ pc' = "genres"
          /\ UNCHANGED <<service_locals, collected_date>>
    /\ UNCHANGED <<env, store, user_spotify_data, conn, exc, outcome, calls>>

(* lines 119-125: for entry in top_tracks_data: db_service.store_top_tracks(...),
   which (lines 187-200) calls _store_top_items_with_position_changes *)
TracksLoop ==
    /\ pc = "tracks"
    /\ \/ /\ i <= Len(Data.top_tracks_data)
          /\ item_type' = "track"
          /\ top_items' = Data.top_tracks_data[i].top_tracks
          /\ top_items_prev' = << >>
          /\ top_items_to_store' = << >>
          /\ pc' = "get_top_items"
          /\ UNCHANGED i
       \/ /\ i > Len(Data.top_tracks_data)
          /\ i' = 1
          /\ pc' = "genres"
          /\ UNCHANGED service_locals
    /\ UNCHANGED <<env, store, user_spotify_data, collected_date, conn, exc, outcome, calls>>

(* The date computed with the interval of the short window for every window. *)
PrevDateShortInterval(time_range, date) ==
    strftime(MinusDays(date, ComparisonIntervalDays["short_term"]))

(* lines 150-151: the date of the snapshot to compare with *)
PrevDate(time_range, date) ==
    strftime(MinusDays(date, ComparisonIntervalDays[time_range]))

(* _get_top_items treating an empty result as a failure. *)
GetTopItemsRaisesOnEmpty ==
    /\ pc = "get_top_items"
    /\ LET prev_date == PrevDate(Entry.time_range, collected_date[1])
           call(result, fault) ==
               Call("_get_top_items",
                    [user_id |-> Data.user_id, item_type |-> item_type,
                     time_range |-> Entry.time_range, collected_date |-> prev_date,
                     result |-> result, store_fault |-> fault])
       IN \/ /\ RaiseInTry("mysql.connector.Error")
             /\ calls' = Append(calls, call(None, "cursor"))
             /\ UNCHANGED top_items_prev
          \/ /\ RaiseInTry("DBServiceException")
             /\ calls' = Append(calls, call(None, "query"))
             /\ UNCHANGED top_items_prev
          \/ /\ MatchingRows(Data.user_id, item_type, Entry.time_range, prev_date) = << >>
             /\ RaiseInTry("DBServiceException")
             /\ calls' = Append(calls, call(None, "none"))
             /\ UNCHANGED top_items_prev
          \/ /\ MatchingRows(Data.user_id, item_type, Entry.time_range, prev_date) # << >>
             /\ \E results \in SelectTopItems(Data.user_id, item_type,
                                              Entry.time_range, prev_date) :
                   /\ top_items_prev' = results
                   /\ calls' = Append(calls, call(Some(results), "none"))
             /\ pc' = "choose"
             /\ UNCHANGED <<exc, outcome>>
    /\ UNCHANGED <<env, store, handler_locals, conn, item_type, top_items,
                   top_items_to_store>>

(* _store_top_items_with_position_changes lines 150-157 and _get_top_items
   lines 58-77.  store_fault records what the store did to the call: it
   failed to give a cursor, it failed the query (execute or fetchall), or it
   answered. *)
GetTopItems ==
    /\ pc = "get_top_items"
    /\ LET prev_date == PrevDate(Entry.time_range, collected_date[1])
           call(result, fault) ==
               Call("_get_top_items",
                    [user_id |-> Data.user_id, item_type |-> item_type,
                     time_range |-> Entry.time_range, collected_date |-> prev_date,
                     result |-> result, store_fault |-> fault])
       IN \/ /\ RaiseInTry("mysql.connector.Error")        \* line 58, outside the try
             /\ calls' = Append(calls, call(None, "cursor"))
             /\ UNCHANGED top_items_prev
          \/ /\ RaiseInTry("DBServiceException")           \* lines 72-75
             /\ calls' = Append(calls, call(None, "query"))
             /\ UNCHANGED top_items_prev
          \/ /\ \E results \in SelectTopItems(Data.user_id, item_type,
                                              Entry.time_range, prev_date) :
                   /\ top_items_prev' = results
                   /\ calls' = Append(calls, call(Some(results), "none"))
             /\ pc' = "choose"
             /\ UNCHANGED <<exc, outcome>>
    /\ UNCHANGED <<env, store, handler_locals, conn, item_type, top_items,
                   top_items_to_store>>

(* UseEngine deciding on the current list instead of the previous one. *)
UseEngineOnCurrent(items_prev) == top_items # << >>

(* line 159: if top_items_prev: *)
UseEngine(items_prev) == items_prev # << >>

(* _store_top_items_with_position_changes lines 159-162 *)
ChooseItemsToStore ==
    /\ pc = "choose"
    /\ LET call(result) == Call("_calculate_position_changes",
                                [items_current |-> top_items, items_prev |-> top_items_prev,
                                 result |-> result])
       IN \/ /\ UseEngine(top_items_prev)
             /\ ~CalculateRaises(top_items, top_items_prev)
             /\ top_items_to_store' = _calculate_position_changes(top_items, top_items_prev)
             /\ calls' = Append(calls, call(Some(top_items_to_store')))
             /\ pc' = "executemany"
             /\ UNCHANGED <<exc, outcome>>
          \/ /\ UseEngine(top_items_prev)
             /\ CalculateRaises(top_items, top_items_prev)
             /\ calls' = Append(calls, call(None))
             /\ RaiseInTry("KeyError")
             /\ UNCHANGED top_items_to_store
          \/ /\ ~UseEngine(top_items_prev)
             /\ top_items_to_store' = top_items
             /\ pc' = "executemany"
             /\ UNCHANGED <<exc, outcome, calls>>
    /\ UNCHANGED <<env, store, handler_locals, conn, item_type, top_items, top_items_prev>>

(* _store_top_items lines 87-115: the values, cursor() and executemany() *)
StoreExecuteMany ==
    /\ pc = "executemany"
    /\ LET date == strftime(collected_date[1])
           values == InsertValues(Data.user_id, top_items_to_store, item_type,
                                  Entry.time_range, date)
       IN /\ calls' = Append(calls, Call("_store_top_items",
                                [user_id |-> Data.user_id, top_items |-> top_items_to_store,
                                 item_type |-> item_type, time_range |-> Entry.time_range,
                                 collected_date |-> date]))
          /\ \/ /\ RaiseInTry("mysql.connector.Error")     \* line 112, outside the try
                /\ UNCHANGED pending
             \/ /\ pending' = pending \o values
                /\ pc' = "commit"
                /\ UNCHANGED <<exc, outcome>>
             \/ /\ \E k \in 0..(Len(values) - 1) :        \* executemany raises at row k + 1
                      pending' = pending \o SubSeq(values, 1, k)
                /\ pc' = "rollback"
                /\ UNCHANGED <<exc, outcome>>
    /\ UNCHANGED <<env, store, handler_locals, connection, close_calls, service_locals>>

(* _store_top_items line 116: commit(), and the return to the caller's loop *)
StoreCommit ==
    /\ pc = "commit"
    /\ \/ /\ spotify_user' = Committed(pending).spotify_user
          /\ tables' = Committed(pending).tables
          /\ pending' = << >>
          /\ calls' = Append(calls, Call("commit", [writes |-> pending]))
          /\ i' = i + 1
          /\ pc' = IF item_type = "artist" THEN "artists" ELSE "tracks"
       \/ /\ pc' = "rollback"
          /\ UNCHANGED <<store, pending, calls, i>>
    /\ UNCHANGED <<env, user_spotify_data, collected_date, connection, close_calls,
                   service_locals, exc, outcome>>

(* store_top_genres / store_top_emotions: one transaction that inserts a row
   per item, or fails with the store unchanged. *)
StoreMeasures(op, table, items, time_range) ==
    LET date == strftime(collected_date[1])
        values == MeasureValues(table, Data.user_id, items, time_range, date)
    IN /\ calls' = Append(Append(calls, Call(op,
                             [user_id |-> Data.user_id, top_items |-> items,
                              time_range |-> time_range, collected_date |-> date])),
                          Call("commit", [writes |-> values]))
       /\ spotify_user' = Committed(values).spotify_user
       /\ tables' = Committed(values).tables

StoreMeasuresFails(op, items, time_range) ==
    /\ calls' = Append(calls, Call(op,
                          [user_id |-> Data.user_id, top_items |-> items,
                           time_range |-> time_range,
                           collected_date |-> strftime(collected_date[1])]))
    /\ RaiseInTry("DBServiceException")
    /\ UNCHANGED store

(* lines 128-134: for entry in top_genres_data: db_service.store_top_genres(...) *)
GenresLoop ==
    /\ pc = "genres"
    /\ \/ /\ i <= Len(Data.top_genres_data)
          /\ StoreMeasures("store_top_genres", "top_genre",
                           Data.top_genres_data[i].top_genres,
                           Data.top_genres_data[i].time_range)
          /\ i' = i + 1
          /\ UNCHANGED <<pc, exc, outcome>>
       \/ /\ i <= Len(Data.top_genres_data)
          /\ StoreMeasuresFails("store_top_genres", Data.top_genres_data[i].top_genres,
                                Data.top_genres_data[i].time_range)
          /\ UNCHANGED i
       \/ /\ i > Len(Data.top_genres_data)
          /\ i' = 1
          /\ pc' = "emotions"
          /\ UNCHANGED <<store, exc, outcome, calls>>
    /\ UNCHANGED <<env, user_spotify_data, collected_date, conn, service_locals>>

(* lines 137-143: for entry in top_emotions_data: db_service.store_top_emotions(...) *)
EmotionsLoop ==
    /\ pc = "emotions"
    /\ \/ /\ i <= Len(Data.top_emotions_data)
          /\ StoreMeasures("store_top_emotions", "top_emotion",
                           Data.top_emotions_data[i].top_emotions,
                           Data.top_emotions_data[i].time_range)
          /\ i' = i + 1
          /\ UNCHANGED <<pc, exc, outcome>>
       \/ /\ i <= Len(Data.top_emotions_data)
          /\ StoreMeasuresFails("store_top_emotions", Data.top_emotions_data[i].top_emotions,
                                Data.top_emotions_data[i].time_range)
          /\ UNCHANGED i
       \/ /\ i > Len(Data.top_emotions_data)
          /\ pc' = "finally"
          /\ UNCHANGED <<store, i, exc, outcome, calls>>
    /\ UNCHANGED <<env, user_spotify_data, collected_date, conn, service_locals>>

(* The except block without its raise: the error is logged and swallowed. *)
ExceptSwallows ==
    /\ pc = "except"
    /\ exc' = "none"
    /\ pc' = "finally"
    /\ UNCHANGED <<env, store, handler_locals, conn, service_locals, outcome, calls>>

(* lines 144-147: except Exception: log and re-raise *)
Except ==
    /\ pc = "except"
    /\ pc' = "finally"
    /\ UNCHANGED <<env, store, handler_locals, conn, service_locals, exc, outcome, calls>>

(* connection.close() at the end of the try block instead of in a finally
   block: it is skipped when an exception is in flight. *)
CloseOnSuccessOnly ==
    /\ pc = "finally"
    /\ connection' = IF exc = "none" THEN "closed" ELSE connection
    /\ close_calls' = IF exc = "none" THEN close_calls + 1 ELSE close_calls
    /\ pending' = << >>
    /\ outcome' = IF exc = "none" THEN "returned" ELSE "raised"
    /\ pc' = "done"
    /\ UNCHANGED <<env, store, handler_locals, service_locals, exc, calls>>

(* lines 148-149: finally: connection.close().  Closing ends the connection's
   open transaction without committing it. *)
Finally ==
    /\ pc = "finally"
    /\ connection' = "closed"
    /\ close_calls' = close_calls + 1
    /\ pending' = << >>
    /\ outcome' = IF exc = "none" THEN "returned" ELSE "raised"
    /\ pc' = "done"
    /\ UNCHANGED <<env, store, handler_locals, service_locals, exc, calls>>

---------------------------------------------------------------------------
(* The specification of the handler against the store *)

Init ==
    /\ now = 0
    /\ spotify_user = [u \in Users |-> InitialToken]
    /\ tables = EmptyTables
    /\ invocations = 0
    /\ pc = "idle"
    /\ event = [well_formed |-> FALSE, body |-> None]
    /\ user_spotify_data = None
    /\ connection = "none"
    /\ close_calls = 0
    /\ pending = << >>
    /\ collected_date = None
    /\ i = 0
    /\ item_type = "artist"
    /\ top_items = << >>
    /\ top_items_prev = << >>
    /\ top_items_to_store = << >>
    /\ exc = "none"
    /\ outcome = "running"
    /\ calls = << >>

Next ==
    \/ \E e \in Events : Invoke(e)
    \/ Tick
    \/ GetSettings
    \/ Extract
    \/ Connect
    \/ CreateService
    \/ CredentialStep
    \/ UpdateRefreshTokenExecute
    \/ UpdateRefreshTokenCommit
    \/ Rollback
    \/ CollectDate
    \/ ArtistsLoop
    \/ TracksLoop
    \/ GetTopItems
    \/ ChooseItemsToStore
    \/ StoreExecuteMany
    \/ StoreCommit
    \/ GenresLoop
    \/ EmotionsLoop
    \/ Except
    \/ Finally

Spec == Init /\ [][Next]_vars

---------------------------------------------------------------------------
(* The specification of the rank-delta engine alone: the two lists are drawn
   from every list of up to MaxLen items, and the engine is applied to them. *)

EngineIdLists == SeqsUpTo(Ids, MaxLen)

EngineInit ==
    /\ top_items \in {Ranked(ids) : ids \in EngineIdLists}
    /\ top_items_prev \in {Ranked(ids) : ids \in EngineIdLists}
                          \cup {RankedBackwards(ids) : ids \in EngineIdLists}
    /\ top_items_to_store = << >>
    /\ pc = "engine"
    /\ exc = "none"
    /\ now = 0
    /\ spotify_user = [u \in Users |-> InitialToken]
    /\ tables = EmptyTables
    /\ invocations = 0
    /\ event = [well_formed |-> FALSE, body |-> None]
    /\ user_spotify_data = None
    /\ connection = "none"
    /\ close_calls = 0
    /\ pending = << >>
    /\ collected_date = None
    /\ i = 0
    /\ item_type = "artist"
    /\ outcome = "running"
    /\ calls = << >>

(* One call of DBService._calculate_position_changes(top_items, top_items_prev) *)
EngineCall ==
    /\ pc = "engine"
    /\ \/ /\ ~CalculateRaises(top_items, top_items_prev)
          /\ top_items_to_store' = _calculate_position_changes(top_items, top_items_prev)
          /\ UNCHANGED exc
       \/ /\ CalculateRaises(top_items, top_items_prev)
          /\ exc' = "KeyError"
          /\ UNCHANGED top_items_to_store
    /\ pc' = "engine_done"
    /\ UNCHANGED <<env, store, handler_locals, conn, item_type, top_items, top_items_prev,
                   outcome, calls>>

EngineNext == EngineCall

SpecEngine == EngineInit /\ [][EngineNext]_vars


---------------------------------------------------------------------------
(* Two invocations at once.  The queue delivered the same message to two
   handlers, which are both at the store call of its one list (lambda_handler
   lines 110-116), each on a connection of its own, with the same
   collected_date.  pc, top_items_prev, top_items_to_store, pending, exc,
   outcome and calls hold one value per invocation.  A SELECT sees committed
   rows only; the tables have no unique key, so an INSERT of a row that is
   already there waits for nothing and fails on nothing.  The store fails
   nowhere in this specification. *)

Procs == {1, 2}

ConcurrentRequests ==
    {Request("u1", None, [NoData EXCEPT !.top_artists_data = <<ArtistsData(r, items)>>]) :
        r \in TimeRange,
        items \in {<< >>, Ranked(<<"a", "b">>), Ranked(<<"b", "c">>), Ranked(<<"c", "a", "b">>)}}

ConcurrentInit ==
    /\ now = MaxDay
    /\ event \in {[well_formed |-> TRUE, body |-> r] : r \in ConcurrentRequests}
    /\ user_spotify_data = Some(event.body)
    /\ collected_date = Some([day |-> now, time |-> "00:05"])
    /\ i = 1
    /\ item_type = "artist"
    /\ top_items = Data.top_artists_data[1].top_artists
    /\ spotify_user = [u \in Users |-> InitialToken]
    /\ \E previous \in {<< >>, Ranked(<<"a", "b">>)} :
           tables = [EmptyTables EXCEPT !.top_artist =
                        RowsOfValues(InsertValues(
                            "u1", previous, "artist", Data.top_artists_data[1].time_range,
                            now - ComparisonIntervalDays[Data.top_artists_data[1].time_range]))]
    /\ invocations = 2
    /\ connection = "open"
    /\ close_calls = 0
    /\ pc = [p \in Procs |-> "get_top_items"]
    /\ top_items_prev = [p \in Procs |-> << >>]
    /\ top_items_to_store = [p \in Procs |-> << >>]
    /\ pending = [p \in Procs |-> << >>]
    /\ exc = [p \in Procs |-> "none"]
    /\ outcome = [p \in Procs |-> "running"]
    /\ calls = [p \in Procs |-> << >>]

shared == <<now, spotify_user, invocations, event, user_spotify_data, connection,
            close_calls, collected_date, i, item_type, top_items>>

(* _store_top_items_with_position_changes lines 150-157, _get_top_items *)
ConcurrentGetTopItems(p) ==
    /\ pc[p] = "get_top_items"
    /\ LET prev_date == PrevDate(Entry.time_range, collected_date[1])
       IN \E results \in SelectTopItems(Data.user_id, item_type, Entry.time_range, prev_date) :
              /\ top_items_prev' = [top_items_prev EXCEPT ![p] = results]
              /\ calls' = [calls EXCEPT ![p] = Append(@, Call("_get_top_items",
                              [user_id |-> Data.user_id, item_type |-> item_type,
                               time_range |-> Entry.time_range, collected_date |-> prev_date,
                               result |-> Some(results), store_fault |-> "none"]))]
    /\ pc' = [pc EXCEPT ![p] = "choose"]
    /\ UNCHANGED <<shared, tables, top_items_to_store, pending, exc, outcome>>

(* lines 159-162; a KeyError of the engine leaves the handler through its
   except and finally blocks *)
ConcurrentChoose(p) ==
    /\ pc[p] = "choose"
    /\ \/ /\ UseEngine(top_items_prev[p])
          /\ ~CalculateRaises(top_items, top_items_prev[p])
          /\ top_items_to_store' = [top_items_to_store EXCEPT ![p] =
                                       _calculate_position_changes(top_items, top_items_prev[p])]
          /\ pc' = [pc EXCEPT ![p] = "executemany"]
          /\ UNCHANGED <<exc, outcome>>
       \/ /\ UseEngine(top_items_prev[p])
          /\ CalculateRaises(top_items, top_items_prev[p])
          /\ exc' = [exc EXCEPT ![p] = "KeyError"]
          /\ outcome' = [outcome EXCEPT ![p] = "raised"]
          /\ pc' = [pc EXCEPT ![p] = "done"]
          /\ UNCHANGED top_items_to_store
       \/ /\ ~UseEngine(top_items_prev[p])
          /\ top_items_to_store' = [top_items_to_store EXCEPT ![p] = top_items]
          /\ pc' = [pc EXCEPT ![p] = "executemany"]
          /\ UNCHANGED <<exc, outcome>>
    /\ UNCHANGED <<shared, tables, top_items_prev, pending, calls>>

(* _store_top_items lines 87-115 *)
ConcurrentExecuteMany(p) ==
    /\ pc[p] = "executemany"
    /\ pending' = [pending EXCEPT ![p] =
                      InsertValues(Data.user_id, top_items_to_store[p], item_type,
                                   Entry.time_range, strftime(collected_date[1]))]
    /\ calls' = [calls EXCEPT ![p] = Append(@, Call("_store_top_items",
                    [user_id |-> Data.user_id, top_items |-> top_items_to_store[p],
                     item_type |-> item_type, time_range |-> Entry.time_range,
                     collected_date |-> strftime(collected_date[1])]))]
    /\ pc' = [pc EXCEPT ![p] = "commit"]
    /\ UNCHANGED <<shared, tables, top_items_prev, top_items_to_store, exc, outcome>>

(* _store_top_items line 116, and the return of the handler *)
ConcurrentCommit(p) ==
    /\ pc[p] = "commit"
    /\ tables' = Committed(pending[p]).tables
    /\ calls' = [calls EXCEPT ![p] = Append(@, Call("commit", [writes |-> pending[p]]))]
    /\ pending' = [pending EXCEPT ![p] = << >>]
    /\ outcome' = [outcome EXCEPT ![p] = "returned"]
    /\ pc' = [pc EXCEPT ![p] = "done"]
    /\ UNCHANGED <<shared, top_items_prev, top_items_to_store, exc>>

ConcurrentNext ==
    \E p \in Procs :
        \/ ConcurrentGetTopItems(p)
        \/ ConcurrentChoose(p)
        \/ ConcurrentExecuteMany(p)
        \/ ConcurrentCommit(p)

SpecConcurrent == ConcurrentInit /\ [][ConcurrentNext]_vars

---------------------------------------------------------------------------
(* extract_user_spotify_data_from_event alone.  A JSON object is a function
   from its keys; record["body"] is the text of a JSON document, modelled by
   the document, or text that is no JSON.  A missing key is a key outside the
   DOMAIN.  UserSpotifyData takes user_id, as lambda_handler reads it back
   (lambda_function.py:102). *)

NotJson == [not_json |-> TRUE]

Without(d, key) == [k \in DOMAIN d \ {key} |-> d[k]]

KeyError(key) == [type |-> "KeyError", message |-> key]

(* The keys of `keys`, in the order the code reads them, that d lacks *)
MissingIn(d, keys) == SelectSeq(keys, LAMBDA k : k \notin DOMAIN d)

(* line 40 (47, 54, 57-63): the first key a list comprehension over `items`
   fails to read *)
RECURSIVE FirstMissingInItems(_, _)
FirstMissingInItems(items, fields) ==
    IF items = << >> THEN None
    ELSE IF MissingIn(Head(items), fields) # << >>
         THEN Some(MissingIn(Head(items), fields)[1])
         ELSE FirstMissingInItems(Tail(items), fields)

(* lines 37-41: one pass of a for loop over the entries of a category *)
FirstMissingInEntry(entry, list_key, fields) ==
    IF "time_range" \notin DOMAIN entry THEN Some("time_range")
    ELSE IF list_key \notin DOMAIN entry THEN Some(list_key)
    ELSE FirstMissingInItems(entry[list_key], fields)

RECURSIVE FirstMissingInEntries(_, _, _)
FirstMissingInEntries(entries, list_key, fields) ==
    IF entries = << >> THEN None
    ELSE IF FirstMissingInEntry(Head(entries), list_key, fields) # None
         THEN FirstMissingInEntry(Head(entries), list_key, fields)
         ELSE FirstMissingInEntries(Tail(entries), list_key, fields)

(* lines 28-34: the keys read from the body, in order *)
BodyKeys ==
    <<"user_id", "refresh_token", "top_artists_data_raw", "top_tracks_data_raw",
      "top_genres_data_raw", "top_emotions_data_raw">>

(* lines 36-68: the four loops, in order *)
FirstMissingInLoops(data) ==
    LET artists == FirstMissingInEntries(data["top_artists_data_raw"], "top_artists",
                                         <<"id", "position">>)
        tracks == FirstMissingInEntries(data["top_tracks_data_raw"], "top_tracks",
                                        <<"id", "position">>)
        genres == FirstMissingInEntries(data["top_genres_data_raw"], "top_genres",
                                        <<"name", "count">>)
        emotions == FirstMissingInEntries(data["top_emotions_data_raw"], "top_emotions",
                                          <<"name", "percentage">>)
    IN IF artists # None THEN artists
       ELSE IF tracks # None THEN tracks
       ELSE IF genres # None THEN genres
       ELSE emotions

(* lines 36-77: the UserSpotifyData built from a body all of whose keys are
   there.  time_range is the string of the message as it is. *)
Decoded(data) ==
    LET items(raw) == [k \in 1..Len(raw) |-> TopItem(raw[k].id, raw[k].position)]
        measures(raw, field) ==
            [k \in 1..Len(raw) |-> [name |-> raw[k].name, measure |-> raw[k][field]]]
    IN [user_id |-> data.user_id,
        refresh_token |-> data.refresh_token,
        top_artists_data |->
            [k \in 1..Len(data["top_artists_data_raw"]) |->
                ArtistsData(data["top_artists_data_raw"][k].time_range,
                            items(data["top_artists_data_raw"][k].top_artists))],
        top_tracks_data |->
            [k \in 1..Len(data["top_tracks_data_raw"]) |->
                TracksData(data["top_tracks_data_raw"][k].time_range,
                           items(data["top_tracks_data_raw"][k].top_tracks))],
        top_genres_data |->
            [k \in 1..Len(data["top_genres_data_raw"]) |->
                [top_genres |-> measures(data["top_genres_data_raw"][k].top_genres, "count"),
                 time_range |-> data["top_genres_data_raw"][k].time_range]],
        top_emotions_data |->
            [k \in 1..Len(data["top_emotions_data_raw"]) |->
                [top_emotions |-> measures(data["top_emotions_data_raw"][k].top_emotions,
                                           "percentage"),
                 time_range |-> data["top_emotions_data_raw"][k].time_range]]]

Raised(error) == [raised |-> Some(error), returned |-> None]
Returned(value) == [raised |-> None, returned |-> Some(value)]

(* lines 24-78 *)
extract_user_spotify_data_from_event(e) ==
    IF "Records" \notin DOMAIN e THEN Raised(KeyError("Records"))
    ELSE IF e.Records = << >> THEN Raised([type |-> "IndexError", message |-> "list index"])
    ELSE IF "body" \notin DOMAIN e.Records[1] THEN Raised(KeyError("body"))
    ELSE IF e.Records[1].body = NotJson                      \* json.loads, line 26
         THEN Raised([type |-> "JSONDecodeError", message |-> "Expecting value"])
    ELSE LET data == e.Records[1].body
         IN IF MissingIn(data, BodyKeys) # << >>
            THEN Raised(KeyError(MissingIn(data, BodyKeys)[1]))
            ELSE IF FirstMissingInLoops(data) # None
                 THEN Raised(KeyError(FirstMissingInLoops(data)[1]))
                 ELSE Returned(Decoded(data))

(* The categories of a message: the key of the category in the body, the key
   of the list in an entry, and the fields of an item. *)
Categories ==
    {[data |-> "top_artists_data", list |-> "top_artists", fields |-> {"id", "position"}],
     [data |-> "top_tracks_data", list |-> "top_tracks", fields |-> {"id", "position"}],
     [data |-> "top_genres_data", list |-> "top_genres", fields |-> {"name", "count"}],
     [data |-> "top_emotions_data", list |-> "top_emotions", fields |-> {"name", "percentage"}]}

(* The body of a message as the senders and the tests build it
   (tests/test_lambda_function.py:90-165), with one entry per category. *)
EnvelopeBody ==
    [user_id |-> "u1",
     refresh_token |-> Some("tokA"),
     top_artists_data |->
        <<[top_artists |-> <<[id |-> "a", position |-> 1], [id |-> "b", position |-> 2]>>,
           time_range |-> "short_term"]>>,
     top_tracks_data |->
        <<[top_tracks |-> <<[id |-> "a", position |-> 1]>>, time_range |-> "medium_term"]>>,
     top_genres_data |->
        <<[top_genres |-> <<[name |-> "genre1", count |-> 3]>>, time_range |-> "long_term"]>>,
     top_emotions_data |->
        <<[top_emotions |-> <<[name |-> "emotion1", percentage |-> 30, track_id |-> "1"]>>,
           time_range |-> "short_term"]>>]

(* The key under which a body of the given shape carries a category: the
   envelope's key, or the key that line 31-34 read. *)
DataKey(shape, category) ==
    IF shape = "envelope" THEN category.data
    ELSE CASE category.data = "top_artists_data" -> "top_artists_data_raw"
           [] category.data = "top_tracks_data" -> "top_tracks_data_raw"
           [] category.data = "top_genres_data" -> "top_genres_data_raw"
           [] category.data = "top_emotions_data" -> "top_emotions_data_raw"

Body(shape) ==
    IF shape = "envelope" THEN EnvelopeBody
    ELSE [k \in {"user_id", "refresh_token"} \cup {DataKey("raw", c) : c \in Categories} |->
             IF k \in {"user_id", "refresh_token"} THEN EnvelopeBody[k]
             ELSE EnvelopeBody[(CHOOSE c \in Categories : DataKey("raw", c) = k).data]]

Message(body) == [Records |-> <<[messageId |-> "m1", body |-> body]>>]

(* An event of the extraction specification: the message, and what the sender
   did to it: the key left out (or "none") and the time_range value put in
   that is no TimeRange (or "none"). *)
ExtractEvent(shape, missing, invalid, message) ==
    [shape |-> shape, missing |-> missing, invalid |-> invalid, message |-> message]

InvalidTimeRanges == {"weekly", "SHORT_TERM"}

EventsOfShape(shape) ==
    {ExtractEvent(shape, "none", "none", Message(Body(shape))),
     ExtractEvent(shape, "Records", "none", [requestId |-> "r1"]),
     ExtractEvent(shape, "body", "none", [Records |-> <<[messageId |-> "m1"]>>])}
    \cup {ExtractEvent(shape, k, "none", Message(Without(Body(shape), k))) :
             k \in DOMAIN Body(shape)}
    \cup {ExtractEvent(shape, k, "none",
                       Message([Body(shape) EXCEPT ![DataKey(shape, c)] =
                                   <<Without(@[1], k)>>])) :
             c \in Categories, k \in {"time_range"}}
    \cup {ExtractEvent(shape, c.list, "none",
                       Message([Body(shape) EXCEPT ![DataKey(shape, c)] =
                                   <<Without(@[1], c.list)>>])) :
             c \in Categories}
    \cup UNION {{ExtractEvent(shape, k, "none",
                       Message([Body(shape) EXCEPT ![DataKey(shape, c)][1][c.list] =
                                   <<Without(@[1], k)>> \o Tail(@)])) :
                    k \in c.fields} : c \in Categories}
    \cup {ExtractEvent(shape, "none", v,
                       Message([Body(shape) EXCEPT ![DataKey(shape, c)][1].time_range = v])) :
             c \in Categories, v \in InvalidTimeRanges}

ExtractEvents ==
    EventsOfShape("envelope") \cup EventsOfShape("raw")
    \cup {ExtractEvent("raw", "none", "none", Message(NotJson)),
          ExtractEvent("raw", "none", "none", [Records |-> << >>])}

NoError == [type |-> "none", message |-> ""]

ExtractInit ==
    /\ event \in ExtractEvents
    /\ pc = "extract_event"
    /\ user_spotify_data = None
    /\ exc = NoError
    /\ outcome = "running"
    /\ now = 0
    /\ spotify_user = [u \in Users |-> InitialToken]
    /\ tables = EmptyTables
    /\ invocations = 0
    /\ connection = "none"
    /\ close_calls = 0
    /\ pending = << >>
    /\ collected_date = None
    /\ i = 0
    /\ item_type = "artist"
    /\ top_items = << >>
    /\ top_items_prev = << >>
    /\ top_items_to_store = << >>
    /\ calls = << >>

(* One call of extract_user_spotify_data_from_event(event) *)
ExtractCall ==
    /\ pc = "extract_event"
    /\ LET result == extract_user_spotify_data_from_event(event.message)
       IN IF result.raised # None
          THEN /\ exc' = result.raised[1]
               /\ outcome' = "raised"
               /\ UNCHANGED user_spotify_data
          ELSE /\ user_spotify_data' = result.returned
               /\ outcome' = "returned"
               /\ UNCHANGED exc
    /\ pc' = "extract_done"
    /\ UNCHANGED <<env, store, collected_date, i, conn, service_locals, calls>>

ExtractNext == ExtractCall

SpecExtract == ExtractInit /\ [][ExtractNext]_vars

---------------------------------------------------------------------------
(* Claims *)

Last(s) == s[Len(s)]

Ops(op) == {j \in 1..Len(calls) : calls[j].op = op}

PositionIn(items, id) == (CHOOSE p \in Range(items) : p.id = id).position

OccursIn(items, id) == \E p \in Range(items) : p.id = id

(* C1 (SpecEngine): for non-empty current and previous lists with ids unique
   within each list, the engine returns an item for every current item; an
   item whose id occurs in previous has position_change = previous position -
   current position and is_new = false; an item whose id does not occur in
   previous has position_change absent and is_new = true; an id that occurs
   only in previous yields no output item. *)
C1_PositionChanges ==
    (/\ pc = "engine_done"
     /\ top_items # << >> /\ top_items_prev # << >>
     /\ UniqueIds(top_items) /\ UniqueIds(top_items_prev))
    => /\ exc = "none"
       /\ \A c \in Range(top_items) :
              \E o \in Range(top_items_to_store) : o.id = c.id /\ o.position = c.position
       /\ \A o \in Range(top_items_to_store) :
              /\ OccursIn(top_items, o.id)
              /\ IF OccursIn(top_items_prev, o.id)
                 THEN /\ o.position_change
                            = Some(PositionIn(top_items_prev, o.id) - PositionIn(top_items, o.id))
                      /\ o.is_new = FALSE
                 ELSE /\ o.position_change = None
                      /\ o.is_new = TRUE

(* C1 witness: the engine has returned for lists with a moved item, a new item
   and an id that occurs only in previous. *)
C1_Witness ==
    /\ pc = "engine_done" /\ exc = "none"
    /\ UniqueIds(top_items) /\ UniqueIds(top_items_prev)
    /\ \E o \in Range(top_items_to_store) : o.position_change = Some(1)
    /\ \E o \in Range(top_items_to_store) : o.is_new
    /\ \E p \in Range(top_items_prev) : ~OccursIn(top_items, p.id)

(* The _get_top_items call that a _store_top_items call at index j of the log
   belongs to: the last one before it. *)
ReadBefore(j) ==
    LET reads == {g \in Ops("_get_top_items") : g < j}
    IN CHOOSE g \in reads : \A h \in reads : h <= g

(* C2 (Spec): when the previous-snapshot lookup of a triple returned an empty
   list, every row the store commits for the triple has is_new = true and
   position_change absent. *)
C2_DefaultsApplied ==
    \A j \in Ops("commit") :
        (/\ j > 1
         /\ calls[j - 1].op = "_store_top_items"
         /\ calls[ReadBefore(j - 1)].args.result = Some(<< >>))
        => \A w \in Range(calls[j].args.writes) :
               w.row.is_new = TRUE /\ w.row.position_change = None

(* C3 (Spec): in _store_top_items_with_position_changes the engine is called
   if and only if the lookup returned a non-empty list: after an empty lookup
   no engine call follows and the received items go to the store; after a
   non-empty lookup exactly one engine call follows, with (current, previous),
   and its result goes to the store. *)
C3_EngineIffPrevious ==
    /\ \A j \in Ops("_calculate_position_changes") :
           /\ j > 1
           /\ calls[j - 1].op = "_get_top_items"
           /\ calls[j - 1].args.result # None
           /\ calls[j - 1].args.result[1] # << >>
           /\ calls[j].args.items_prev = calls[j - 1].args.result[1]
    /\ pc \in {"executemany", "commit"}
       => /\ top_items = IF item_type = "artist" THEN Data.top_artists_data[i].top_artists
                                                 ELSE Data.top_tracks_data[i].top_tracks
          /\ LET n == Len(calls) - (IF pc = "commit" THEN 1 ELSE 0)
             IN IF top_items_prev = << >>
                THEN /\ calls[n].op = "_get_top_items"
                     /\ calls[n].args.result = Some(<< >>)
                     /\ top_items_to_store = top_items
                ELSE /\ calls[n].op = "_calculate_position_changes"
                     /\ calls[n].args.items_current = top_items
                     /\ calls[n].args.items_prev = top_items_prev
                     /\ calls[n].args.result = Some(top_items_to_store)
                     /\ calls[n - 1].op = "_get_top_items"
                     /\ calls[n - 1].args.result = Some(top_items_prev)
    /\ pc = "commit"
       => /\ Last(calls).op = "_store_top_items"
          /\ Last(calls).args.top_items = top_items_to_store

(* C3 witness: one invocation has stored a list after an empty lookup without
   an engine call and is storing the engine's result after a non-empty one. *)
C3_Witness ==
    /\ pc = "commit"
    /\ top_items_prev # << >>
    /\ calls[Len(calls) - 1].op = "_calculate_position_changes"
    /\ \E j \in Ops("_store_top_items") :
           j < Len(calls) /\ calls[j - 1].op = "_get_top_items"

(* C4 (Spec): a successful update_refresh_token(u, t) leaves the credential
   row of u holding t and the row of every other user unchanged. *)
C4_UpdateCredential ==
    [][(pc = "update_refresh_token_commit" /\ pc' = "collect_date")
       => /\ spotify_user'[Data.user_id] = Data.refresh_token[1]
          /\ \A u \in Users \ {Data.user_id} : spotify_user'[u] = spotify_user[u]]_vars


(* The credential update of this invocation has failed: it was called, its
   call is over, and it did not commit. *)
CredentialFailed ==
    /\ Len(calls) >= 1
    /\ calls[1].op = "update_refresh_token"
    /\ ~(Len(calls) >= 2 /\ calls[2].op = "commit")
    /\ pc \notin {"update_refresh_token", "update_refresh_token_commit"}

(* C5 (Spec): if the credential update fails, the invocation performs no
   previous-snapshot read and no snapshot store, and it ends in failure with
   the error raised to the caller. *)
C5_CredentialFailureIsFatal ==
    CredentialFailed
    => /\ \A j \in 1..Len(calls) : calls[j].op \in {"update_refresh_token", "rollback"}
       /\ pc \in {"rollback", "except", "finally", "done"}
       /\ collected_date = None
       /\ outcome # "returned"
       /\ pc = "done" => (outcome = "raised" /\ exc # "none")

(* C5 witness: an invocation has ended in failure after its credential update
   was rolled back. *)
C5_Witness ==
    /\ CredentialFailed
    /\ pc = "done" /\ outcome = "raised" /\ exc = "DBServiceException"
    /\ Last(calls).op = "rollback"
    /\ Len(Data.top_artists_data) > 0

StoreOps == {"_store_top_items", "store_top_genres", "store_top_emotions"}

SnapshotOps == StoreOps \cup {"_get_top_items", "_calculate_position_changes"}

(* C6 (Spec): in an invocation that reaches the credential step, a non-null
   refresh_token makes update_refresh_token be called exactly once, with the
   request's user_id and refresh_token, before any snapshot operation; with a
   null refresh_token it is never called and the handler goes on to the
   snapshot step. *)
C6_State ==
    user_spotify_data # None
    => /\ Ops("update_refresh_token") \subseteq {1}
       /\ \A j \in Ops("update_refresh_token") :
              /\ Data.refresh_token # None
              /\ calls[j].args = [user_id |-> Data.user_id,
                                  refresh_token |-> Data.refresh_token[1]]
       /\ (\E j \in 1..Len(calls) : calls[j].op \in SnapshotOps) => collected_date # None
       /\ (Data.refresh_token # None /\ (collected_date # None \/ pc = "collect_date"))
              => Ops("update_refresh_token") = {1}
       /\ Data.refresh_token = None => Ops("update_refresh_token") = {}

C6_CredentialStep ==
    /\ []C6_State
    /\ [][(pc = "credential" /\ Data.refresh_token = None)
          => (pc' = "collect_date" /\ exc' = "none" /\ calls' = calls)]_vars

(* C6 witness: an invocation with a refresh token has returned after one
   update_refresh_token call followed by a snapshot store. *)
C6_Witness ==
    /\ pc = "done" /\ outcome = "returned"
    /\ Data.refresh_token # None
    /\ Ops("update_refresh_token") = {1}
    /\ Ops("_store_top_items") # {}

(* A read or store of a triple has failed in this invocation. *)
TripleFailed == collected_date # None /\ (exc # "none" \/ pc = "rollback")

(* C7 (Spec): once a read or store of a triple has failed, the invocation
   performs no further store-service operation (the failing triple is not
   retried, no later triple is read or stored), the error stays in flight, and
   the invocation ends in failure. *)
C7_FirstFailureAborts ==
    /\ [](TripleFailed
          => /\ pc \in {"rollback", "except", "finally", "done"}
             /\ outcome # "returned"
             /\ pc = "done" => outcome = "raised")
    /\ [][(TripleFailed /\ pc' # "get_settings")
          => /\ TripleFailed'
             /\ \/ calls' = calls
                \/ pc = "rollback"
                   /\ calls' = Append(calls, Call("rollback", [writes |-> pending]))
             /\ tables' = tables
             /\ spotify_user' = spotify_user
             /\ exc # "none" => exc' = exc]_vars

(* C7 witness: an invocation with two artist lists and a track list has ended
   in failure at its first store, with no other triple read or stored. *)
C7_Witness ==
    /\ pc = "done" /\ outcome = "raised" /\ exc = "DBServiceException"
    /\ Len(Data.top_artists_data) = 2 /\ Len(Data.top_tracks_data) = 1
    /\ Cardinality(Ops("_get_top_items")) = 1
    /\ Cardinality(Ops("_store_top_items")) = 1
    /\ Last(calls).op = "rollback"

IdsOf(items) == {items[k].id : k \in 1..Len(items)}

(* The store calls of the log made for the list `items` of `time_range` in the
   category stored by `op` (and, for _store_top_items, `type`). *)
StoresOf(op, type, items, time_range) ==
    {j \in Ops(op) :
        /\ calls[j].args.user_id = Data.user_id
        /\ calls[j].args.time_range = time_range
        /\ calls[j].args.collected_date = strftime(collected_date[1])
        /\ IF op = "_store_top_items"
           THEN /\ calls[j].args.item_type = type
                /\ IdsOf(calls[j].args.top_items) = IdsOf(items)
           ELSE calls[j].args.top_items = items}

(* Every store call of the log is followed by the commit of its rows, which
   are in the tables. *)
StoresCommitted ==
    \A j \in 1..Len(calls) :
        calls[j].op \in StoreOps
        => /\ j < Len(calls)
           /\ calls[j + 1].op = "commit"
           /\ Len(calls[j + 1].args.writes) = Len(calls[j].args.top_items)
           /\ \A w \in Range(calls[j + 1].args.writes) : w.row \in Range(tables[w.table])

(* C8 (Spec): when an invocation returns without raising, exactly one store
   operation was performed and committed for every list of the request, in
   each of the four categories. *)
C8_SuccessMeansAllStored ==
    (pc = "done" /\ outcome = "returned")
    => /\ StoresCommitted
       /\ \A e \in Range(Data.top_artists_data) :
              Cardinality(StoresOf("_store_top_items", "artist", e.top_artists, e.time_range))
                  = Cardinality({k \in 1..Len(Data.top_artists_data) :
                                    Data.top_artists_data[k] = e})
       /\ \A e \in Range(Data.top_tracks_data) :
              Cardinality(StoresOf("_store_top_items", "track", e.top_tracks, e.time_range))
                  = Cardinality({k \in 1..Len(Data.top_tracks_data) :
                                    Data.top_tracks_data[k] = e})
       /\ \A e \in Range(Data.top_genres_data) :
              Cardinality(StoresOf("store_top_genres", "genre", e.top_genres, e.time_range))
                  = Cardinality({k \in 1..Len(Data.top_genres_data) :
                                    Data.top_genres_data[k] = e})
       /\ \A e \in Range(Data.top_emotions_data) :
              Cardinality(StoresOf("store_top_emotions", "emotion", e.top_emotions, e.time_range))
                  = Cardinality({k \in 1..Len(Data.top_emotions_data) :
                                    Data.top_emotions_data[k] = e})
       /\ Cardinality(Ops("_store_top_items"))
              = Len(Data.top_artists_data) + Len(Data.top_tracks_data)
       /\ Cardinality(Ops("store_top_genres")) = Len(Data.top_genres_data)
       /\ Cardinality(Ops("store_top_emotions")) = Len(Data.top_emotions_data)

(* C8 witness: an invocation with lists in all four categories has returned. *)
C8_Witness ==
    /\ pc = "done" /\ outcome = "returned"
    /\ Len(Data.top_artists_data) = 2 /\ Len(Data.top_tracks_data) = 1
    /\ Len(Data.top_genres_data) = 1 /\ Len(Data.top_emotions_data) = 1
    /\ Cardinality(Ops("commit")) = 5

(* C9 as claimed (Spec): on every exit path, a failure to decode the message
   included, the connection is closed exactly once. *)
C9_ClosedOnceOnEveryPath ==
    pc = "done" => (connection = "closed" /\ close_calls = 1)

(* The invocation failed before mysql.connector.connect returned: in
   get_settings, in decoding, or in connect itself. *)
FailedBeforeConnection ==
    \/ user_spotify_data = None
    \/ exc = "mysql.connector.Error" /\ calls = << >>

(* C9 (Spec), amended: the connection is closed exactly once on every exit
   path on which it was opened (success, failure to construct the service,
   credential failure, storage failure); an invocation that fails before the
   connection is opened (settings, decoding, connecting) has no connection and
   closes none; no invocation ends with an open connection. *)
C9_ClosedOnceIfOpened ==
    /\ close_calls <= 1
    /\ connection = "open" => pc \notin {"idle", "done"}
    /\ pc = "done"
       => IF FailedBeforeConnection
          THEN connection = "none" /\ close_calls = 0 /\ outcome = "raised"
          ELSE connection = "closed" /\ close_calls = 1

(* C9 witness: an invocation has ended after a storage failure with its
   connection closed once. *)
C9_Witness ==
    /\ pc = "done" /\ outcome = "raised" /\ exc = "DBServiceException"
    /\ Ops("_store_top_items") # {}
    /\ connection = "closed" /\ close_calls = 1

(* The handler is inside a call of _store_top_items. *)
InStoreTopItems ==
    \/ pc \in {"executemany", "commit"}
    \/ pc = "rollback" /\ Last(calls).op = "_store_top_items"

RowsOf(writes) == [k \in 1..Len(writes) |-> writes[k].row]

(* C10 as claimed (Spec): a call of _store_top_items ends either with one row
   per item of its list committed, or with the committed rows as they were
   before the call and a DBServiceException raised to the caller. *)
C10_AllOrNothing ==
    [][(InStoreTopItems /\ ~InStoreTopItems')
       => LET T == TableOf(item_type)
              values == InsertValues(Data.user_id, top_items_to_store, item_type,
                                     Entry.time_range, strftime(collected_date[1]))
          IN \/ /\ tables' = [tables EXCEPT ![T] = @ \o RowsOf(values)]
                /\ exc' = "none"
             \/ /\ tables' = tables
                /\ exc' = "DBServiceException"]_vars

(* The committed rows never hold a part of one call's list: a call of
   _store_top_items leaves the tables as they were or adds every row. *)
C10_NoPartialCommit ==
    [][InStoreTopItems
       => \/ tables' = tables
          \/ tables' = [tables EXCEPT ![TableOf(item_type)] =
                           @ \o RowsOf(InsertValues(Data.user_id, top_items_to_store,
                                                    item_type, Entry.time_range,
                                                    strftime(collected_date[1])))]]_vars

(* The handler is inside update_refresh_token, _get_top_items or
   _store_top_items. *)
InStoreOperation ==
    pc \in {"update_refresh_token", "update_refresh_token_commit", "get_top_items",
            "executemany", "commit", "rollback"}

(* C11 as claimed (Spec): whenever update_refresh_token, _get_top_items or
   _store_top_items raises, whatever step of the operation failed, the error
   the caller receives is a DBServiceException, and for the two write
   operations the transaction was rolled back before it. *)
C11_StoreFailuresWrapped ==
    [][(InStoreOperation /\ exc' # "none")
       => /\ exc' = "DBServiceException"
          /\ pc # "get_top_items" => Last(calls').op = "rollback"]_vars

(* C12 (Spec): when the store answers the query of _get_top_items and no row
   matches the key, the call returns the empty list and raises nothing; the
   call returns an empty list only then; and it raises DBServiceException
   only when the store failed the query, in which case it returns nothing. *)
C12_EmptyIsNotAnError ==
    [][pc = "get_top_items"
       => LET call == Last(calls')
              rows == MatchingRows(call.args.user_id, call.args.item_type,
                                   call.args.time_range, call.args.collected_date)
          IN /\ call.op = "_get_top_items"
             /\ call.args.store_fault = "none"
                => /\ exc' = "none" /\ pc' = "choose"
                   /\ call.args.result = Some(top_items_prev')
                   /\ top_items_prev' = << >> <=> rows = << >>
             /\ exc' = "DBServiceException" => call.args.store_fault = "query"
             /\ exc' # "none" => (call.args.result = None /\ pc' = "except")]_vars

(* C12 witness: in one invocation a lookup has returned an empty list and the
   next lookup has failed. *)
C12_Witness ==
    /\ exc = "DBServiceException"
    /\ Cardinality(Ops("_get_top_items")) = 2
    /\ \E j \in Ops("_get_top_items") : calls[j].args.result = Some(<< >>)
    /\ Last(calls).op = "_get_top_items"
    /\ Last(calls).args.store_fault = "query"

IsPrefix(s, t) == Len(s) <= Len(t) /\ SubSeq(t, 1, Len(s)) = s

(* C13 (Spec): the snapshot tables are append-only: every step leaves each
   committed row in place and unchanged, and a successful _store_top_items
   adds exactly one row per item of its list, in order, after the rows the
   table already had, also when the key already has rows. *)
C13_AppendOnly ==
    [][/\ \A T \in DOMAIN tables : IsPrefix(tables[T], tables'[T])
       /\ (pc = "commit" /\ pc' # "rollback")
          => LET T == TableOf(item_type)
                 items == Last(calls).args.top_items
                 added == SubSeq(tables'[T], Len(tables[T]) + 1, Len(tables'[T]))
             IN /\ Len(added) = Len(items)
                /\ \A k \in 1..Len(items) :
                       /\ added[k].item_id = items[k].id
                       /\ added[k].position = items[k].position
                       /\ added[k].spotify_user_id = Data.user_id
                       /\ added[k].time_range = Entry.time_range
                       /\ added[k].collected_date = strftime(collected_date[1])]_vars

(* C13 witness: a store has committed rows for a key and item that already
   had a row. *)
C13_Witness ==
    /\ Len(calls) > 0
    /\ Last(calls).op = "commit"
    /\ \E w \in Range(Last(calls).args.writes) :
           /\ w.table = "top_artist"
           /\ Cardinality({k \in 1..Len(tables.top_artist) :
                              SameKeyAndItem(tables.top_artist[k], w.row)}) >= 2

(* The committed rows of the key both invocations store under. *)
RowsOfTheKey ==
    MatchingRows(Data.user_id, item_type, Entry.time_range, strftime(collected_date[1]))

BothDone == \A p \in Procs : pc[p] = "done"

(* C14 as claimed (SpecConcurrent): two invocations that store the same list
   under the same key and date at once, with no store failure, both return
   without raising under every interleaving, and the key then holds the rows
   of both: every item of the list twice. *)
C14_BothSucceed ==
    BothDone
    => /\ \A p \in Procs : outcome[p] = "returned" /\ exc[p] = "none"
       /\ Len(RowsOfTheKey) = 2 * Len(top_items)
       /\ \A item \in Range(top_items) :
              Cardinality({k \in 1..Len(RowsOfTheKey) :
                              /\ RowsOfTheKey[k].item_id = item.id
                              /\ RowsOfTheKey[k].position = item.position}) = 2

(* The same for a list that is not empty: the two invocations interfere with
   one another under no interleaving. *)
C14_BothSucceedNonEmpty ==
    (BothDone /\ top_items # << >>)
    => /\ \A p \in Procs : outcome[p] = "returned" /\ exc[p] = "none"
       /\ Len(RowsOfTheKey) = 2 * Len(top_items)
       /\ \A p \in Procs : \A w \in Range(Last(calls[p]).args.writes) :
              w.row \in Range(RowsOfTheKey)

(* C15 as claimed (SpecExtract): for a message in the shape of the envelope
   with one required key left out, extract_user_spotify_data_from_event
   raises an error whose message is that key. *)
C15_NamesTheMissingKey ==
    (pc = "extract_done" /\ event.shape = "envelope" /\ event.missing # "none")
    => /\ outcome = "raised"
       /\ exc.message = event.missing

(* The same for a message that carries its categories under the keys the
   code reads (top_artists_data_raw, ...). *)
C15_NamesTheMissingKeyRaw ==
    (pc = "extract_done" /\ event.shape = "raw" /\ event.missing # "none")
    => /\ outcome = "raised"
       /\ exc = KeyError(event.missing)

(* C16 as claimed (SpecExtract): a message with a time_range value that is
   no TimeRange is rejected by extract_user_spotify_data_from_event with an
   error whose message is the value, so that no list with such a time_range
   is returned to the handler.  Stated for the messages that carry every key
   the code reads, which are the ones the decoder gets as far as the
   time_range of. *)
C16_InvalidTimeRangeRejected ==
    (pc = "extract_done" /\ event.invalid # "none" /\ event.shape = "raw")
    => /\ outcome = "raised"
       /\ exc.message = event.invalid
       /\ user_spotify_data = None

(* C17 (SpecEngine): for non-empty lists with ids unique within each list,
   whatever the order of previous, the engine's output is as long as current
   and its k-th item has the id and position of the k-th item of current. *)
C17_OrderPreserved ==
    (/\ pc = "engine_done"
     /\ top_items # << >> /\ top_items_prev # << >>
     /\ UniqueIds(top_items) /\ UniqueIds(top_items_prev))
    => /\ exc = "none"
       /\ Len(top_items_to_store) = Len(top_items)
       /\ \A k \in 1..Len(top_items) :
              /\ top_items_to_store[k].id = top_items[k].id
              /\ top_items_to_store[k].position = top_items[k].position

(* C17 witness: the engine has returned for a current list of three items
   and a previous list that holds some of them in another order, not
   ascending in position. *)
C17_Witness ==
    /\ pc = "engine_done" /\ exc = "none"
    /\ UniqueIds(top_items) /\ UniqueIds(top_items_prev)
    /\ Len(top_items) = 3 /\ Len(top_items_prev) = 2
    /\ top_items_prev[1].position > top_items_prev[2].position
    /\ top_items_prev[1].id = top_items[3].id
    /\ top_items_prev[2].id = top_items[1].id
    /\ Len(top_items_to_store) = 3

(* C18 as claimed (Spec): no call of the engine has an empty current list:
   for an empty received list the caller skips the engine, whatever the
   previous snapshot holds. *)
C18_EngineSkippedForEmptyCurrent ==
    \A j \in Ops("_calculate_position_changes") : calls[j].args.items_current # << >>

(* C19 (Spec): every _store_top_items call follows a _get_top_items call for
   the same user_id, item type and time_range as the list being stored, at
   the day of collected_date minus the interval of that time_range; the rows
   are stored, and committed, under the day of collected_date itself. *)
C19_PreviousAtShiftedDate ==
    /\ \A g \in Ops("_get_top_items") :
           /\ calls[g].args.user_id = Data.user_id
           /\ calls[g].args.collected_date
                  = collected_date[1].day - ComparisonIntervalDays[calls[g].args.time_range]
    /\ pc \in {"choose", "executemany", "commit"}
       => LET g == CHOOSE g \in Ops("_get_top_items") :
                       \A h \in Ops("_get_top_items") : h <= g
          IN /\ calls[g].args.time_range = Entry.time_range
             /\ calls[g].args.item_type = item_type
    /\ \A j \in Ops("_store_top_items") :
           LET g == ReadBefore(j)
           IN /\ calls[j].args.user_id = calls[g].args.user_id
              /\ calls[j].args.item_type = calls[g].args.item_type
              /\ calls[j].args.time_range = calls[g].args.time_range
              /\ calls[j].args.collected_date = collected_date[1].day
              /\ (j < Len(calls) /\ calls[j + 1].op = "commit")
                 => \A w \in Range(calls[j + 1].args.writes) :
                        /\ w.table = TableOf(calls[j].args.item_type)
                        /\ w.row.spotify_user_id = calls[j].args.user_id
                        /\ w.row.time_range = calls[j].args.time_range
                        /\ w.row.collected_date = collected_date[1].day

(* C19 witness: a medium_term list has been stored and committed after its
   lookup found the snapshot of two days before. *)
C19_Witness ==
    \E j \in Ops("_store_top_items") :
        /\ calls[j].args.time_range = "medium_term"
        /\ calls[ReadBefore(j)].args.result # None
        /\ calls[ReadBefore(j)].args.result[1] # << >>
        /\ calls[ReadBefore(j)].args.collected_date = calls[j].args.collected_date - 2
        /\ j < Len(calls) /\ calls[j + 1].op = "commit"

(* C20 (Spec): a _get_top_items call that returns gives back one item per
   committed row of the table of its item type whose user, time range and
   date are those of the call, with the row's item id and position, and no
   other item; the items are in ascending order of position. *)
C20_ExactKeyInPositionOrder ==
    [][(pc = "get_top_items" /\ pc' = "choose")
       => LET table == tables[TableOf(item_type)]
              date == collected_date[1].day - ComparisonIntervalDays[Entry.time_range]
              stored == {k \in 1..Len(table) :
                            /\ table[k].spotify_user_id = Data.user_id
                            /\ table[k].time_range = Entry.time_range
                            /\ table[k].collected_date = date}
              result == top_items_prev'
          IN /\ Len(result) = Cardinality(stored)
             /\ \A k \in stored :
                    Cardinality({n \in 1..Len(result) :
                                    result[n] = TopItem(table[k].item_id, table[k].position)})
                        = Cardinality({n \in stored :
                                          /\ table[n].item_id = table[k].item_id
                                          /\ table[n].position = table[k].position})
             /\ \A n \in 1..(Len(result) - 1) : result[n].position <= result[n + 1].position]_vars

(* C20 witness: a lookup has returned the two items of its key while the
   table holds rows of the same user and date for another time range, and
   rows of another date. *)
C20_Witness ==
    /\ pc = "choose"
    /\ Len(top_items_prev) = 2
    /\ \E r \in Range(tables[TableOf(item_type)]) :
           /\ r.spotify_user_id = Data.user_id
           /\ r.collected_date = Last(calls).args.collected_date
           /\ r.time_range # Entry.time_range
    /\ \E r \in Range(tables[TableOf(item_type)]) :
           /\ r.spotify_user_id = Data.user_id
           /\ r.collected_date # Last(calls).args.collected_date

(* C21 (Spec): once a triple has failed, every row that a store of an
   earlier triple of the invocation committed is still in its table, through
   the except and finally blocks to the end, and the invocation ends in
   failure. *)
C21_EarlierTriplesStayCommitted ==
    TripleFailed
    => /\ \A j \in Ops("commit") :
              \A w \in Range(calls[j].args.writes) :
                  w.table # "spotify_user"
                  => Cardinality({k \in 1..Len(tables[w.table]) : tables[w.table][k] = w.row})
                         >= Cardinality({n \in Ops("commit") :
                                            w \in Range(calls[n].args.writes)})
       /\ outcome # "returned"
       /\ pc = "done" => outcome = "raised"

(* C21 witness: an invocation has ended in failure at the store of its second
   artist list, after the first was committed. *)
C21_Witness ==
    /\ pc = "done" /\ outcome = "raised" /\ exc = "DBServiceException"
    /\ TripleFailed
    /\ i = 2 /\ item_type = "artist"
    /\ Last(calls).op = "rollback"
    /\ \E j \in Ops("commit") :
           /\ calls[j].args.writes # << >>
           /\ calls[j].args.writes[1].table = "top_artist"

(* The store calls of the log, in order: category, time range and ids or
   items of each. *)
StoreCallsInOrder ==
    LET stores == SelectSeq(calls, LAMBDA c : c.op \in StoreOps)
    IN [k \in 1..Len(stores) |->
           IF stores[k].op = "_store_top_items"
           THEN [category |-> stores[k].args.item_type,
                 time_range |-> stores[k].args.time_range,
                 items |-> IdsOf(stores[k].args.top_items)]
           ELSE [category |-> stores[k].op,
                 time_range |-> stores[k].args.time_range,
                 items |-> stores[k].args.top_items]]

(* The lists of the request in receipt order: artists, tracks, genres,
   emotions, each category in the order of its list. *)
ListsInReceiptOrder ==
    [k \in 1..Len(Data.top_artists_data) |->
        [category |-> "artist", time_range |-> Data.top_artists_data[k].time_range,
         items |-> IdsOf(Data.top_artists_data[k].top_artists)]]
    \o [k \in 1..Len(Data.top_tracks_data) |->
        [category |-> "track", time_range |-> Data.top_tracks_data[k].time_range,
         items |-> IdsOf(Data.top_tracks_data[k].top_tracks)]]
    \o [k \in 1..Len(Data.top_genres_data) |->
        [category |-> "store_top_genres", time_range |-> Data.top_genres_data[k].time_range,
         items |-> Data.top_genres_data[k].top_genres]]
    \o [k \in 1..Len(Data.top_emotions_data) |->
        [category |-> "store_top_emotions", time_range |-> Data.top_emotions_data[k].time_range,
         items |-> Data.top_emotions_data[k].top_emotions]]

(* C22 (Spec): the store calls of an invocation are, in order, those of the
   lists of the request in receipt order (artists, tracks, genres, emotions,
   each category in the order received), as far as the invocation got; and
   when the read of a triple starts, every store called before it has
   committed and no transaction is open. *)
C22_ReceiptOrder ==
    user_spotify_data # None
    => /\ IsPrefix(StoreCallsInOrder, ListsInReceiptOrder)
       /\ (pc = "done" /\ outcome = "returned") => StoreCallsInOrder = ListsInReceiptOrder
       /\ \A g \in Ops("_get_top_items") :
              \A j \in 1..(g - 1) :
                  calls[j].op \in StoreOps => (j + 1 < g /\ calls[j + 1].op = "commit")
       /\ pc = "get_top_items" => pending = << >>

(* C22 witness: an invocation has returned after storing two artist lists of
   different time ranges, a track list, a genre list and an emotion list. *)
C22_Witness ==
    /\ pc = "done" /\ outcome = "returned"
    /\ Len(StoreCallsInOrder) = 5
    /\ StoreCallsInOrder[1].time_range # StoreCallsInOrder[2].time_range
    /\ StoreCallsInOrder[2].category = "artist"
    /\ StoreCallsInOrder[3].category = "track"
    /\ Cardinality(Ops("_get_top_items")) = 3

(* C23 (Spec): collected_date is set once in an invocation, after the
   credential step, and every store call of the invocation, of every
   category and time range, is given its day; the rows of the invocation are
   committed under that one day, also when the clock passes midnight while
   the invocation runs. *)
C23_State ==
    /\ \A j, k \in 1..Len(calls) :
           (calls[j].op \in StoreOps /\ calls[k].op \in StoreOps)
           => calls[j].args.collected_date = calls[k].args.collected_date
    /\ \A j \in 1..Len(calls) :
           /\ calls[j].op \in StoreOps
              => (collected_date # None
                  /\ calls[j].args.collected_date = strftime(collected_date[1]))
           /\ calls[j].op = "commit"
              => \A w \in Range(calls[j].args.writes) :
                     w.table # "spotify_user"
                     => w.row.collected_date = strftime(collected_date[1])
    /\ collected_date # None
       => pc \notin {"get_settings", "extract", "connect", "create_service", "credential",
                     "update_refresh_token", "update_refresh_token_commit", "collect_date"}

C23_OneCollectedDate ==
    /\ []C23_State
    /\ [][collected_date' # collected_date
          => \/ pc = "collect_date" /\ collected_date = None /\ collected_date'[1].day = now
             \/ pc' = "get_settings" /\ collected_date' = None]_vars

(* C23 witness: an invocation has returned after storing lists of all four
   categories, and the clock passed midnight while it ran. *)
C23_Witness ==
    /\ pc = "done" /\ outcome = "returned"
    /\ Len(Data.top_artists_data) = 2 /\ Len(Data.top_tracks_data) = 1
    /\ Len(Data.top_genres_data) = 1 /\ Len(Data.top_emotions_data) = 1
    /\ Cardinality({j \in 1..Len(calls) : calls[j].op \in StoreOps}) = 5
    /\ now # collected_date[1].day

===========================================================================
